---- MODULE Spec2Model ----
(***************************************************************************)
(* Session management of tiger_etl: SessionManager over the user_sessions  *)
(* table (PostgresDB.create/read/update/delete), with several callers      *)
(* whose store round trips interleave.                                     *)
(*                                                                         *)
(* Time is counted in ticks; TicksPerSecond ticks make one second, so      *)
(* that the whole-second truncation of session_duration is visible.        *)
(* A nullable column holds <<>> (NULL) or <<v>>.                           *)
(***************************************************************************)
EXTENDS Integers, Sequences, FiniteSets, TLC

\* ---- bounds of the model ----
MaxTime == 1          \* the clock runs from 0 to MaxTime ticks
MaxCalls == 3         \* calls made in one behaviour
TicksPerSecond == 2   \* clock resolution

\* timedelta(hours=h): seconds in an hour
SecondsPerHour == 3600
TicksPerHour == SecondsPerHour * TicksPerSecond

Procs == {"c1", "c2"}            \* concurrent callers sharing the PostgresDB singleton
SessionIds == {"s1", "s2"}       \* well-formed session_id strings
EmptySessionId == ""             \* fails min_length=1 / ERROR_SESSION_ID_EMPTY
SessionIdInputs == SessionIds \cup {EmptySessionId}
UserIds == {1}
HoursInputs == {0, 1}            \* 0 fails SessionCleanup ge=1
IdInputs == 0..Cardinality(SessionIds)   \* 0 fails _validate_session_id_int

Null == <<>>
PastTime == 0 - TicksPerHour     \* a caller-supplied datetime one hour before the epoch of the run
FutureTime == MaxTime + 3        \* a caller-supplied datetime later than every clock reading

VARIABLES
    store,       \* rows of user_sessions
    now,         \* datetime.now(timezone.utc), in ticks
    next_id,     \* autoincrement of user_sessions.id
    calls,       \* calls made so far
    pc,          \* per caller: "idle" or the round trip its call is about to make
    local,       \* per caller: local variables of the call in progress
    result,      \* outcome of the call that ended in the last step, if one did
    logged_out,  \* ids of the rows a logout_session call has written
    issued,      \* session tokens FastAPISessionManager has set as cookies
    db,          \* PostgresDB: the class attributes, the lock, the engines
    groups       \* rows of user_groups and of user_group_mapping

vars == <<store, now, next_id, calls, pc, local, result, logged_out, issued, db, groups>>

\* what SessionManager never touches
other_vars == <<issued, db, groups>>

\* ---- helpers over dicts ----
Merge(f, g) == [k \in (DOMAIN f) \cup (DOMAIN g) |-> IF k \in DOMAIN g THEN g[k] ELSE f[k]]

\* ---- PostgresDB (database_connections/pg_db.py) over the reflected table ----
db_read(st, conditions) ==
    {r \in st : \A k \in DOMAIN conditions : r[k] = conditions[k]}

\* unique=True on user_sessions.session_id
UniqueSessionId_none(st) == TRUE
UniqueSessionId(st) ==
    \A r1 \in st : \A r2 \in st : r1.session_id = r2.session_id => r1.id = r2.id

NewRow(data, id) ==
    [id |-> id,
     user_id |-> data.user_id,
     session_id |-> data.session_id,
     login_datetime |-> data.login_datetime,
     logout_datetime |-> Null,
     is_active |-> data.is_active,
     last_activity |-> data.last_activity,
     session_duration |-> Null,
     ip_address |-> IF "ip_address" \in DOMAIN data THEN <<data.ip_address>> ELSE Null]

\* insert ... returning: the row, or SQLAlchemyInsertError on a constraint violation
db_create(st, data, id) ==
    LET row == NewRow(data, id)
        after == st \cup {row}
    IN IF UniqueSessionId(after)
       THEN [ok |-> TRUE, store |-> after, rows |-> {row}]
       ELSE [ok |-> FALSE, store |-> st, rows |-> {}]

\* update ... where ... returning: the updated rows, or SQLAlchemyUpdateError
db_update(st, data, conditions) ==
    LET hit == db_read(st, conditions)
        new == {Merge(r, data) : r \in hit}
        after == (st \ hit) \cup new
    IN IF UniqueSessionId(after)
       THEN [ok |-> TRUE, store |-> after, rows |-> new]
       ELSE [ok |-> FALSE, store |-> st, rows |-> {}]

\* delete ... where: rowcount
db_delete(st, conditions) ==
    LET hit == db_read(st, conditions)
    IN [ok |-> TRUE, store |-> st \ hit, count |-> Cardinality(hit)]

\* ---- validations.py ----
ValidSessionIdStr(s) == s /= EmptySessionId
ValidUserId(u) == u > 0
ValidHours(h) == h >= 1 /\ h <= 8760
ValidIdInt(i) == i > 0

\* SessionCreate(**session_data)
SessionCreate(data) == ValidUserId(data.user_id) /\ ValidSessionIdStr(data.session_id)

\* SessionUpdate(**update_data): field constraints and validate_logout_after_login
SessionUpdate(upd) ==
    /\ DOMAIN upd /= {}
    /\ ("session_id" \in DOMAIN upd => ValidSessionIdStr(upd.session_id))
    /\ ("session_duration" \in DOMAIN upd => upd.session_duration[1] >= 0)
    /\ (({"login_datetime", "logout_datetime"} \subseteq DOMAIN upd /\ upd.logout_datetime /= Null)
            => upd.logout_datetime[1] > upd.login_datetime)

\* ---- inputs ----
CreateData(u, s, lo, ao) ==
    [k \in {"user_id", "session_id"}
           \cup (IF lo = Null THEN {} ELSE {"login_datetime"})
           \cup (IF ao = Null THEN {} ELSE {"is_active"}) |->
        CASE k = "user_id" -> u
          [] k = "session_id" -> s
          [] k = "login_datetime" -> lo[1]
          [] k = "is_active" -> ao[1]]

CreateInputs ==
    {CreateData(u, s, Null, ao) : u \in UserIds, s \in SessionIds, ao \in {Null, <<FALSE>>}}
    \cup {CreateData(u, s, <<FutureTime>>, Null) : u \in UserIds, s \in SessionIds}

UpdateInputs ==
    { [is_active |-> TRUE],
      [last_activity |-> PastTime],
      [session_id |-> "s2"] }

\* ---- results ----
Outcome(op, arg, kind, value) ==
    [op |-> op, arg |-> arg, kind |-> kind, value |-> value]

NoResult == Outcome("none", Null, "none", Null)

NoCall == [op |-> "none"]

\* SessionManager._prepare_session_data_for_creation
_prepare_session_data_for_creation(session_data, current_time) ==
    Merge([login_datetime |-> current_time, last_activity |-> current_time, is_active |-> TRUE],
          session_data)

\* ---- signed session tokens (URLSafeTimedSerializer) ----
session_timeout == 3600          \* FastAPISessionManager(session_timeout=3600), seconds
secret_key == "server-key"       \* self.secret_key
OtherKey == "other-key"          \* any key that is not the server's

\* the timestamp a token carries: whole seconds
TokenTime(t) == t \div TicksPerSecond

\* the signature over payload and timestamp under a key
Signature(key, payload, timestamp) ==
    [key |-> key, payload |-> payload, timestamp |-> timestamp]

\* serializer.dumps(obj) at time t
dumps(key, obj, t) ==
    [payload |-> obj, timestamp |-> TokenTime(t),
     signature |-> Signature(key, obj, TokenTime(t))]

\* serializer.loads(token, max_age) at time t: the payload, or BadSignature
\* (SignatureExpired is a BadSignature)
loads(key, token, max_age, t) ==
    IF token.signature /= Signature(key, token.payload, token.timestamp)
    THEN [ok |-> FALSE, error |-> "BadSignature"]
    ELSE IF TokenTime(t) - token.timestamp > max_age
    THEN [ok |-> FALSE, error |-> "SignatureExpired"]
    ELSE [ok |-> TRUE, value |-> token.payload]

\* user_sessions outlives the process: at start it holds the session that
\* create_session(user_id=1, session_id="s1") inserted on login, at time 0
ExistingSession ==
    NewRow(_prepare_session_data_for_creation(CreateData(1, "s1", Null, Null), 0), 1)

\* PostgresDB: _instance, _lock, _engine, _connection_initialized as the class
\* statement leaves them; no engine has been created
PostgresDB_class ==
    [_instance |-> Null,                \* cls._instance: None or <<object>>
     _lock |-> Null,                    \* cls._lock: free or <<holder>>
     _engine |-> Null,                  \* self._engine: None or <<engine>>
     _connection_initialized |-> FALSE,
     instances |-> 0,                   \* objects made by super().__new__
     created |-> 0,                     \* engines made by create_engine
     disposed |-> {},                   \* engines on which dispose() was called
     initializing |-> {},               \* threads inside _initialize_connection
     returned |-> FALSE]                \* a PostgresDB() call has returned the instance

\* user_groups and user_group_mapping, empty
NoGroups == [user_groups |-> {}, user_group_mapping |-> {}]

Init ==
    /\ store = {ExistingSession}
    /\ now = 0
    /\ next_id = 2
    /\ calls = 0
    /\ pc = [p \in Procs |-> "idle"]
    /\ local = [p \in Procs |-> NoCall]
    /\ result = NoResult
    /\ logged_out = {}
    /\ issued = {dumps(secret_key, ExistingSession.session_id, 0)}
    /\ db = PostgresDB_class
    /\ groups = NoGroups

\* Callers are anonymous threads: of two idle callers the first one makes the next
\* call, the second one only calls while the first is inside a call.
FirstCaller == "c1"
CanCall(p) == pc[p] = "idle" /\ (p /= FirstCaller => pc[FirstCaller] /= "idle")

\* a call that ends within the step that started it
Return(p, op, arg, kind, value) ==
    /\ calls < MaxCalls
    /\ calls' = calls + 1
    /\ result' = Outcome(op, arg, kind, value)
    /\ UNCHANGED <<pc, local>>

\* a call that goes on to another round trip
Continue(p, next, locals) ==
    /\ calls < MaxCalls
    /\ pc' = [pc EXCEPT ![p] = next]
    /\ local' = [local EXCEPT ![p] = locals]
    /\ calls' = calls + 1
    /\ result' = NoResult

\* the last round trip of a call
Finish(p, kind, value) ==
    /\ result' = Outcome(local[p].op, local[p].arg, kind, value)
    /\ pc' = [pc EXCEPT ![p] = "idle"]
    /\ local' = [local EXCEPT ![p] = NoCall]
    /\ UNCHANGED calls

Tick ==
    /\ now < MaxTime
    /\ now' = now + 1
    /\ result' = NoResult
    /\ UNCHANGED <<store, next_id, calls, pc, local, logged_out>>
    /\ UNCHANGED other_vars

\* SessionManager.create_session: "Check if session already exists"
SessionAlreadyExists_active(st, session_id) ==
    db_read(st, [session_id |-> session_id, is_active |-> TRUE]) /= {}
SessionAlreadyExists(st, session_id) ==
    db_read(st, [session_id |-> session_id]) /= {}

\* SessionManager.create_session: validation and the existence read
create_session(p, session_data) ==
    /\ CanCall(p)
    /\ IF ~SessionCreate(session_data)
       THEN Return(p, "create_session", session_data.session_id, "SessionValidationError", Null)
       ELSE IF SessionAlreadyExists(store, session_data.session_id)
       THEN Return(p, "create_session", session_data.session_id, "SessionAlreadyExistsError", Null)
       ELSE Continue(p, "create_insert",
                     [op |-> "create_session", arg |-> session_data.session_id,
                      data |-> _prepare_session_data_for_creation(session_data, now)])
    /\ UNCHANGED <<store, now, next_id, logged_out>>
    /\ UNCHANGED other_vars

\* SessionManager.create_session: the insert
create_session_insert(p) ==
    /\ pc[p] = "create_insert"
    /\ LET created == db_create(store, local[p].data, next_id)
       IN IF created.ok
          THEN /\ store' = created.store
               /\ next_id' = next_id + 1
               /\ Finish(p, "ok", Null)
          ELSE /\ UNCHANGED <<store, next_id>>
               /\ Finish(p, "SessionCreateError", Null)
    /\ UNCHANGED <<now, logged_out>>
    /\ UNCHANGED other_vars

\* SessionManager.update_session: validation and the existence read
update_session(p, session_id, update_data) ==
    /\ CanCall(p)
    /\ IF ~ValidIdInt(session_id) \/ ~SessionUpdate(update_data)
       THEN Return(p, "update_session", session_id, "SessionValidationError", Null)
       ELSE IF db_read(store, [id |-> session_id]) = {}
       THEN Return(p, "update_session", session_id, "SessionNotFoundError", Null)
       ELSE Continue(p, "update_write",
                     [op |-> "update_session", arg |-> session_id, data |-> update_data])
    /\ UNCHANGED <<store, now, next_id, logged_out>>
    /\ UNCHANGED other_vars

\* SessionManager.update_session: the update by id
update_session_write(p) ==
    /\ pc[p] = "update_write"
    /\ LET updated == db_update(store, local[p].data, [id |-> local[p].arg])
       IN IF updated.ok /\ updated.rows /= {}
          THEN /\ store' = updated.store
               /\ Finish(p, "ok", Null)
          ELSE /\ UNCHANGED store
               /\ Finish(p, "SessionUpdateError", Null)
    /\ UNCHANGED <<now, next_id, logged_out>>
    /\ UNCHANGED other_vars

\* SessionManager.update_session_activity: validation, the active read, the clock
update_session_activity(p, session_id) ==
    /\ CanCall(p)
    /\ IF ~ValidSessionIdStr(session_id)
       THEN Return(p, "update_session_activity", session_id, "SessionValidationError", Null)
       ELSE IF db_read(store, [session_id |-> session_id, is_active |-> TRUE]) = {}
       THEN Return(p, "update_session_activity", session_id, "SessionNotFoundError", Null)
       ELSE Continue(p, "activity_write",
                     [op |-> "update_session_activity", arg |-> session_id,
                      data |-> [last_activity |-> now]])
    /\ UNCHANGED <<store, now, next_id, logged_out>>
    /\ UNCHANGED other_vars

\* SessionManager.update_session_activity: the update by session_id
update_session_activity_write(p) ==
    /\ pc[p] = "activity_write"
    /\ LET updated == db_update(store, local[p].data, [session_id |-> local[p].arg])
       IN IF updated.ok /\ updated.rows /= {}
          THEN /\ store' = updated.store
               /\ Finish(p, "ok", Null)
          ELSE /\ UNCHANGED store
               /\ Finish(p, "SessionUpdateError", Null)
    /\ UNCHANGED <<now, next_id, logged_out>>
    /\ UNCHANGED other_vars

\* int(timedelta.total_seconds()): whole seconds, truncated toward zero
TotalSecondsInt(ticks) ==
    IF ticks >= 0 THEN ticks \div TicksPerSecond ELSE 0 - ((0 - ticks) \div TicksPerSecond)

\* SessionManager.logout_session: the update_data built from the row read
LogoutUpdateData(session_data, logout_time) ==
    [logout_datetime |-> <<logout_time>>,
     is_active |-> FALSE,
     last_activity |-> logout_time,
     session_duration |-> <<TotalSecondsInt(logout_time - session_data.login_datetime)>>]

\* SessionManager.logout_session: validation, the active read, the clock, the duration
logout_session(p, session_id) ==
    /\ CanCall(p)
    /\ IF ~ValidSessionIdStr(session_id)
       THEN Return(p, "logout_session", session_id, "SessionValidationError", Null)
       ELSE LET sessions == db_read(store, [session_id |-> session_id, is_active |-> TRUE])
            IN IF sessions = {}
               THEN Return(p, "logout_session", session_id, "SessionNotFoundError", Null)
               ELSE Continue(p, "logout_write",
                             [op |-> "logout_session", arg |-> session_id,
                              data |-> LogoutUpdateData(CHOOSE r \in sessions : TRUE, now)])
    /\ UNCHANGED <<store, now, next_id, logged_out>>
    /\ UNCHANGED other_vars

\* SessionManager.logout_session: the update by session_id
logout_session_write(p) ==
    /\ pc[p] = "logout_write"
    /\ LET updated == db_update(store, local[p].data, [session_id |-> local[p].arg])
       IN IF updated.ok /\ updated.rows /= {}
          THEN /\ store' = updated.store
               /\ logged_out' = logged_out \cup {r.id : r \in updated.rows}
               /\ Finish(p, "ok", Null)
          ELSE /\ UNCHANGED <<store, logged_out>>
               /\ Finish(p, "SessionUpdateError", Null)
    /\ UNCHANGED <<now, next_id>>
    /\ UNCHANGED other_vars

\* cutoff_time = datetime.now(timezone.utc) - timezone.timedelta(hours=...):
\* datetime.timezone has no attribute timedelta, the expression raises AttributeError
cutoff_time_plus(current_time, hours_inactive) ==
    [ok |-> TRUE, value |-> current_time + hours_inactive * TicksPerHour]
cutoff_time_timedelta(current_time, hours_inactive) ==
    [ok |-> TRUE, value |-> current_time - hours_inactive * TicksPerHour]
cutoff_time(current_time, hours_inactive) ==
    [ok |-> FALSE]

\* SessionManager._find_expired_sessions
_find_expired_sessions(active_sessions, cutoff) ==
    {r.id : r \in {a \in active_sessions : a.last_activity < cutoff}}

\* SessionManager._deactivate_expired_sessions: update_data
ExpiredUpdateData_as_logout(logout_time) ==
    [is_active |-> FALSE, logout_datetime |-> <<logout_time>>, last_activity |-> logout_time]
ExpiredUpdateData(logout_time) ==
    [is_active |-> FALSE, logout_datetime |-> <<logout_time>>]

\* SessionManager._deactivate_expired_sessions: one pass of the loop. db.update
\* may raise; `except Exception: continue` goes on with the next id. written
\* records the ids whose update returned rows.
_deactivate_expired_sessions_break(p) ==
    IF local[p].ids = {}
    THEN /\ Finish(p, "ok", <<local[p].count>>)
         /\ UNCHANGED store
    ELSE \E session_id \in local[p].ids : \E update_raises \in BOOLEAN :
            LET updated == db_update(store, ExpiredUpdateData(local[p].logout_time),
                                     [id |-> session_id])
                hit == ~update_raises /\ updated.ok /\ updated.rows /= {}
            IN /\ store' = IF update_raises THEN store ELSE updated.store
               /\ local' = [local EXCEPT ![p].ids = IF update_raises THEN {} ELSE @ \ {session_id},
                                         ![p].count = IF hit THEN @ + 1 ELSE @,
                                         ![p].written = IF hit THEN @ \cup {session_id} ELSE @]
               /\ result' = NoResult
               /\ UNCHANGED <<pc, calls>>
_deactivate_expired_sessions(p) ==
    IF local[p].ids = {}
    THEN /\ Finish(p, "ok", <<local[p].count>>)
         /\ UNCHANGED store
    ELSE \E session_id \in local[p].ids : \E update_raises \in BOOLEAN :
            LET updated == db_update(store, ExpiredUpdateData(local[p].logout_time),
                                     [id |-> session_id])
                hit == ~update_raises /\ updated.ok /\ updated.rows /= {}
            IN /\ store' = IF update_raises THEN store ELSE updated.store
               /\ local' = [local EXCEPT ![p].ids = @ \ {session_id},
                                         ![p].count = IF hit THEN @ + 1 ELSE @,
                                         ![p].written = IF hit THEN @ \cup {session_id} ELSE @]
               /\ result' = NoResult
               /\ UNCHANGED <<pc, calls>>

\* the locals of a sweep over expired_sessions that starts at current_time
SweepLocals(op, arg, expired_sessions, current_time) ==
    [op |-> op, arg |-> arg, expired |-> expired_sessions, ids |-> expired_sessions,
     logout_time |-> current_time, count |-> 0, written |-> {}]

\* SessionManager.cleanup_expired_sessions: validation, the cutoff, the read of the
\* active rows, then the loop over the expired ids
cleanup_expired_sessions(p, hours_inactive) ==
    /\ IF pc[p] = "sweep"
       THEN _deactivate_expired_sessions(p)
       ELSE /\ CanCall(p)
            /\ UNCHANGED store
            /\ IF ~ValidHours(hours_inactive)
               THEN Return(p, "cleanup_expired_sessions", hours_inactive, "SessionValidationError", Null)
               ELSE LET cutoff == cutoff_time(now, hours_inactive)
                    IN IF ~cutoff.ok
                       THEN Return(p, "cleanup_expired_sessions", hours_inactive, "SessionDeleteError", Null)
                       ELSE Continue(p, "sweep",
                                     SweepLocals("cleanup_expired_sessions", hours_inactive,
                                                 _find_expired_sessions(
                                                     db_read(store, [is_active |-> TRUE]),
                                                     cutoff.value),
                                                 now))
    /\ UNCHANGED <<now, next_id, logged_out>>
    /\ UNCHANGED other_vars

Next ==
    \/ Tick
    \/ \E p \in Procs :
        \/ \E d \in CreateInputs : create_session(p, d)
        \/ create_session_insert(p)
        \/ \E i \in IdInputs : \E u \in UpdateInputs : update_session(p, i, u)
        \/ update_session_write(p)
        \/ \E s \in SessionIdInputs : update_session_activity(p, s)
        \/ update_session_activity_write(p)
        \/ \E s \in SessionIdInputs : logout_session(p, s)
        \/ logout_session_write(p)
        \/ \E h \in HoursInputs : cleanup_expired_sessions(p, h)

Spec == Init /\ [][Next]_vars


\* SessionManager.get_session_by_session_id: the row, or None
get_session_by_session_id(st, session_id) ==
    LET sessions == db_read(st, [session_id |-> session_id])
    IN IF sessions = {} THEN Null ELSE <<CHOOSE r \in sessions : TRUE>>

\* ---- FastAPISessionManager (modules/authentication_management/session_manager.py) ----
WebTimes == {0, 1, session_timeout, session_timeout + 1}     \* clock readings, in seconds

\* time passes between requests
Wait ==
    /\ \E t \in WebTimes : t * TicksPerSecond > now /\ now' = t * TicksPerSecond
    /\ result' = NoResult
    /\ UNCHANGED <<store, next_id, calls, pc, local, logged_out, issued, db, groups>>

\* what a client can put in the session cookie: a token it was given, one of those
\* with its payload or its timestamp changed, or one signed with another key
PresentedTokens ==
    issued
    \cup {[t EXCEPT !.payload = s] : t \in issued, s \in SessionIds}
    \cup {[t EXCEPT !.timestamp = ts] : t \in issued, ts \in WebTimes}
    \cup {dumps(OtherKey, t.payload, t.timestamp * TicksPerSecond) : t \in issued}

\* get_user_session: "Verify and decode session token"; BadSignature gives no session
verify_token_no_max_age(token, t) ==
    loads(secret_key, token, TokenTime(t) + 1, t)
verify_token(token, t) ==
    loads(secret_key, token, session_timeout, t)

\* create_user_session: the new session_id, SessionManager.create_session up to its
\* existence read (SessionAlreadyExistsError: try again with a new id)
create_user_session(p) ==
    /\ CanCall(p)
    /\ \E session_id \in SessionIds :
        LET session_data == [user_id |-> 1, session_id |-> session_id,
                             login_datetime |-> now, is_active |-> TRUE]
        IN IF SessionAlreadyExists(store, session_id)
           THEN /\ result' = NoResult
                /\ UNCHANGED <<pc, local, calls>>
           ELSE Continue(p, "web_create_insert",
                         [op |-> "create_user_session", arg |-> session_id,
                          data |-> _prepare_session_data_for_creation(session_data, now)])
    /\ UNCHANGED <<store, now, next_id, logged_out, issued, db, groups>>

\* create_user_session: the insert, then the signed token set as the cookie
create_user_session_insert(p) ==
    /\ pc[p] = "web_create_insert"
    /\ LET created == db_create(store, local[p].data, next_id)
       IN IF created.ok
          THEN /\ store' = created.store
               /\ next_id' = next_id + 1
               /\ issued' = issued \cup {dumps(secret_key, local[p].arg, now)}
               /\ Finish(p, "ok", <<local[p].arg>>)
          ELSE /\ UNCHANGED <<store, next_id, issued>>
               /\ Finish(p, "SessionCreateError", Null)
    /\ UNCHANGED <<now, logged_out, db, groups>>

\* get_user_session: `except BadSignature: return None` (SignatureExpired is a BadSignature)
except_BadSignature_by_kind(decoded) == <<decoded.error>>
except_BadSignature(decoded) == Null

\* get_user_session: the cookie, the token check, the read by session_id, "Check if
\* session is active"; every exception gives None
get_user_session(p) ==
    /\ CanCall(p)
    /\ \E session_token \in PresentedTokens :
        LET decoded == verify_token(session_token, now)
        IN IF ~decoded.ok
           THEN Return(p, "get_user_session", session_token, "ok", except_BadSignature(decoded))
           ELSE LET session == get_session_by_session_id(store, decoded.value)
                IN IF session /= Null /\ session[1].is_active
                   THEN Continue(p, "web_touch",
                                 [op |-> "get_user_session", arg |-> session_token,
                                  session_id |-> decoded.value, session |-> session])
                   ELSE Return(p, "get_user_session", session_token, "ok", Null)
    /\ UNCHANGED <<store, now, next_id, logged_out, issued, db, groups>>

\* _update_session_activity: update_session_activity's active read and clock; a
\* failure is swallowed and the session read before is returned
get_user_session_touch(p) ==
    /\ pc[p] = "web_touch"
    /\ IF db_read(store, [session_id |-> local[p].session_id, is_active |-> TRUE]) = {}
       THEN Finish(p, "ok", local[p].session)
       ELSE /\ pc' = [pc EXCEPT ![p] = "web_touch_write"]
            /\ local' = [local EXCEPT ![p] = Merge(@, [data |-> [last_activity |-> now]])]
            /\ result' = NoResult
            /\ UNCHANGED calls
    /\ UNCHANGED <<store, now, next_id, logged_out, issued, db, groups>>

\* _update_session_activity: update_session_activity's update by session_id
get_user_session_touch_write(p) ==
    /\ pc[p] = "web_touch_write"
    /\ LET updated == db_update(store, local[p].data, [session_id |-> local[p].session_id])
       IN /\ store' = updated.store
          /\ Finish(p, "ok", local[p].session)
    /\ UNCHANGED <<now, next_id, logged_out, issued, db, groups>>

\* get_current_user: the user of the session, or None
get_current_user(session) ==
    IF session = Null THEN Null
    ELSE <<[id |-> session[1].user_id, session_id |-> session[1].session_id,
            login_time |-> session[1].login_datetime]>>

NextWeb ==
    \/ Wait
    \/ \E p \in Procs :
        \/ create_user_session(p)
        \/ create_user_session_insert(p)
        \/ get_user_session(p)
        \/ get_user_session_touch(p)
        \/ get_user_session_touch_write(p)
        \/ \E s \in SessionIds : logout_session(p, s)
        \/ logout_session_write(p)
        \/ \E i \in IdInputs : update_session(p, i, [is_active |-> TRUE])
        \/ update_session_write(p)

SpecWeb == Init /\ [][NextWeb]_vars

\* ---- SessionManager queries and bulk delete, on a table drawn from QueryStores ----
QuerySessionIds == {"s1", "s2", "s3"}
QueryUserIds == {1, 2}
ClientIp == "10.0.0.1"           \* a well-formed address
MalformedIp == "not-an-ip"       \* ipaddress.ip_address raises on it
IdOf(session_id) == CASE session_id = "s1" -> 1 [] session_id = "s2" -> 2 [] OTHER -> 3

\* field_validator validate_ip_address
ValidIpAddress(v) == v = ClientIp

\* a row as create_session inserts it at time t, and as logout_session leaves it one tick later
CreatedRow(session_id, user_id, t) ==
    NewRow(_prepare_session_data_for_creation(
               [user_id |-> user_id, session_id |-> session_id, ip_address |-> ClientIp], t),
           IdOf(session_id))
LoggedOutRow(session_id, user_id, t) ==
    LET row == CreatedRow(session_id, user_id, t)
    IN Merge(row, LogoutUpdateData(row, t + 1))

QueryRows(session_id) ==
    {CreatedRow(session_id, u, t) : u \in QueryUserIds, t \in 0..MaxTime}
    \cup {LoggedOutRow(session_id, u, t) : u \in QueryUserIds, t \in 0..MaxTime}

\* the tables: for each session_id no row or one row (session_id is unique)
RowChoices(session_id) == {{}} \cup {{r} : r \in QueryRows(session_id)}
QueryStores ==
    {a \cup b \cup c : a \in RowChoices("s1"), b \in RowChoices("s2"), c \in RowChoices("s3")}

\* result.fetchall(): the matching rows, in the order the database returns them
Permutations_(S) ==
    {f \in [1..Cardinality(S) -> S] : \A i, k \in 1..Cardinality(S) : f[i] = f[k] => i = k}
db_read_rows(st, conditions) == Permutations_(db_read(st, conditions))

\* list.sort(key=login_datetime, reverse=True): stable, descending
InsertByLoginDesc(sorted, x) ==
    LET n == Cardinality({i \in 1..Len(sorted) : sorted[i].login_datetime >= x.login_datetime})
    IN SubSeq(sorted, 1, n) \o <<x>> \o SubSeq(sorted, n + 1, Len(sorted))
RECURSIVE SortByLoginDesc(_)
SortByLoginDesc(sessions_list) ==
    IF sessions_list = <<>> THEN <<>>
    ELSE InsertByLoginDesc(SortByLoginDesc(SubSeq(sessions_list, 1, Len(sessions_list) - 1)),
                           sessions_list[Len(sessions_list)])

\* sessions[:limit]
SliceTo(sessions, limit) ==
    IF limit >= 0
    THEN SubSeq(sessions, 1, IF limit < Len(sessions) THEN limit ELSE Len(sessions))
    ELSE SubSeq(sessions, 1, IF Len(sessions) + limit > 0 THEN Len(sessions) + limit ELSE 0)

\* sessions_list[offset:offset + limit], offset >= 0 and limit >= 1
Slice(sessions_list, offset, limit) ==
    IF offset >= Len(sessions_list) THEN <<>>
    ELSE SubSeq(sessions_list, offset + 1,
                IF offset + limit < Len(sessions_list) THEN offset + limit ELSE Len(sessions_list))

\* outcome of a query: the exception or return value, the store exception it had
\* as cause, and the number of store calls the call made
QueryOutcome(op, arg, kind, value, cause, store_calls) ==
    [op |-> op, arg |-> arg, kind |-> kind, value |-> value,
     cause |-> cause, store_calls |-> store_calls]

\* SessionManager.get_session_by_id
get_session_by_id_none(st, session_id, read_raises) ==
    LET sessions == db_read(st, [id |-> session_id])
    IN QueryOutcome("get_session_by_id", session_id, "ok",
                    IF sessions = {} THEN Null ELSE <<CHOOSE r \in sessions : TRUE>>, Null, 1)
get_session_by_id(st, session_id, read_raises) ==
    IF ~ValidIdInt(session_id)
    THEN QueryOutcome("get_session_by_id", session_id, "SessionValidationError", Null, Null, 0)
    ELSE IF read_raises
    THEN QueryOutcome("get_session_by_id", session_id, "SessionNotFoundError", Null,
                      <<"SQLAlchemyReadError">>, 1)
    ELSE LET sessions == db_read(st, [id |-> session_id])
         IN IF sessions = {}
            THEN QueryOutcome("get_session_by_id", session_id, "SessionNotFoundError", Null, Null, 1)
            ELSE QueryOutcome("get_session_by_id", session_id, "ok",
                              <<CHOOSE r \in sessions : TRUE>>, Null, 1)

\* SessionManager.get_session_by_session_id, with its validation and its handlers
get_session_by_session_id_outcome(st, session_id, read_raises) ==
    IF ~ValidSessionIdStr(session_id)
    THEN QueryOutcome("get_session_by_session_id", session_id, "SessionValidationError", Null, Null, 0)
    ELSE IF read_raises
    THEN QueryOutcome("get_session_by_session_id", session_id, "SessionNotFoundError", Null,
                      <<"SQLAlchemyReadError">>, 1)
    ELSE QueryOutcome("get_session_by_session_id", session_id, "ok",
                      get_session_by_session_id(st, session_id), Null, 1)

\* the outcomes of a list query: one for each order the read can return the rows in
ListOutcomes(op, arg, valid, read_raises, rows_read, limit) ==
    IF ~valid
    THEN {QueryOutcome(op, arg, "SessionValidationError", Null, Null, 0)}
    ELSE IF read_raises
    THEN {QueryOutcome(op, arg, "SessionNotFoundError", Null, <<"SQLAlchemyReadError">>, 1)}
    ELSE {QueryOutcome(op, arg, "ok", SortByLoginDesc(SliceTo(sessions, limit)), Null, 1) :
              sessions \in rows_read}

DefaultLimit == 100
LimitInputs == {1, DefaultLimit}

\* SessionManager.get_sessions_by_user
get_sessions_by_user(st, user_id, limit, read_raises) ==
    ListOutcomes("get_sessions_by_user", [user_id |-> user_id, limit |-> limit],
                 ValidUserId(user_id), read_raises,
                 db_read_rows(st, [user_id |-> user_id]), limit)

\* SessionManager.get_active_sessions_by_user (no limit: every row read is returned)
get_active_sessions_by_user_all(st, user_id, read_raises) ==
    ListOutcomes("get_active_sessions_by_user", user_id, ValidUserId(user_id), read_raises,
                 db_read_rows(st, [user_id |-> user_id]), Cardinality(st))
get_active_sessions_by_user(st, user_id, read_raises) ==
    ListOutcomes("get_active_sessions_by_user", user_id, ValidUserId(user_id), read_raises,
                 db_read_rows(st, [user_id |-> user_id, is_active |-> TRUE]), Cardinality(st))

\* SessionManager.get_sessions_by_ip: any non-empty string passes
IpInputs == {"", ClientIp, MalformedIp}
get_sessions_by_ip(st, ip_address, limit, read_raises) ==
    ListOutcomes("get_sessions_by_ip", [ip_address |-> ip_address, limit |-> limit],
                 ip_address /= "", read_raises,
                 db_read_rows(st, [ip_address |-> <<ip_address>>]), limit)

\* SessionSearch(**search_criteria): an absent criterion is Null, a given one <<v>>
SessionSearch(c) ==
    /\ (c.user_id /= Null => c.user_id[1] > 0)
    /\ (c.session_id /= Null => ValidSessionIdStr(c.session_id[1]))
    /\ (c.ip_address /= Null => ValidIpAddress(c.ip_address[1]))
    /\ (c.login_datetime_from /= Null /\ c.login_datetime_to /= Null
            => c.login_datetime_to[1] > c.login_datetime_from[1])
    /\ (c.last_activity_from /= Null /\ c.last_activity_to /= Null
            => c.last_activity_to[1] > c.last_activity_from[1])
    /\ c.limit >= 1 /\ c.limit <= 1000
    /\ c.offset >= 0

\* db_criteria of search_sessions: the equality criteria that were given
db_criteria(c) ==
    [k \in {k \in {"user_id", "session_id", "ip_address", "is_active"} : c[k] /= Null} |->
        IF k = "ip_address" THEN c[k] ELSE c[k][1]]

\* SessionManager._filter_by_login_datetime
_filter_by_login_datetime(sessions, from_dt, to_dt) ==
    LET keep(session) == /\ ~(from_dt /= Null /\ session.login_datetime < from_dt[1])
                         /\ ~(to_dt /= Null /\ session.login_datetime > to_dt[1])
    IN IF from_dt = Null /\ to_dt = Null THEN sessions ELSE SelectSeq(sessions, keep)

\* SessionManager._filter_by_last_activity
_filter_by_last_activity(sessions, from_dt, to_dt) ==
    LET keep(session) == /\ ~(from_dt /= Null /\ session.last_activity < from_dt[1])
                         /\ ~(to_dt /= Null /\ session.last_activity > to_dt[1])
    IN IF from_dt = Null /\ to_dt = Null THEN sessions ELSE SelectSeq(sessions, keep)

\* the filters of search_sessions, applied to the rows read
SearchFiltered(sessions, c) ==
    _filter_by_last_activity(
        _filter_by_login_datetime(sessions, c.login_datetime_from, c.login_datetime_to),
        c.last_activity_from, c.last_activity_to)

\* SessionManager.search_sessions
search_sessions_slice_first(st, c, read_raises) ==
    {QueryOutcome("search_sessions", c, "ok",
                  SortByLoginDesc(Slice(SearchFiltered(sessions, c), c.offset, c.limit)), Null, 1) :
         sessions \in db_read_rows(st, db_criteria(c))}
search_sessions(st, c, read_raises) ==
    IF ~SessionSearch(c)
    THEN {QueryOutcome("search_sessions", c, "SessionValidationError", Null, Null, 0)}
    ELSE IF read_raises
    THEN {QueryOutcome("search_sessions", c, "SessionNotFoundError", Null,
                       <<"SQLAlchemyReadError">>, 1)}
    ELSE {QueryOutcome("search_sessions", c, "ok",
                       Slice(SortByLoginDesc(SearchFiltered(sessions, c)), c.offset, c.limit),
                       Null, 1) :
              sessions \in db_read_rows(st, db_criteria(c))}

\* the search criteria tried: equality criteria, ranges, pages
NoCriteria ==
    [user_id |-> Null, session_id |-> Null, ip_address |-> Null, is_active |-> Null,
     login_datetime_from |-> Null, login_datetime_to |-> Null,
     last_activity_from |-> Null, last_activity_to |-> Null,
     limit |-> DefaultLimit, offset |-> 0]
EqualityInputs ==
    {[user_id |-> Null, is_active |-> Null],
     [user_id |-> <<1>>, is_active |-> Null],
     [user_id |-> <<1>>, is_active |-> <<TRUE>>]}
RangeInputs ==
    {[login_datetime_from |-> Null, login_datetime_to |-> Null],
     [login_datetime_from |-> <<0>>, login_datetime_to |-> <<1>>],
     [login_datetime_from |-> Null, login_datetime_to |-> <<0>>],
     [last_activity_from |-> <<1>>, last_activity_to |-> Null],
     [last_activity_from |-> <<1>>, last_activity_to |-> <<1>>]}
PageInputs ==
    {[limit |-> 1, offset |-> 0], [limit |-> 1, offset |-> 1],
     [limit |-> 2, offset |-> 0], [limit |-> DefaultLimit, offset |-> 0],
     [limit |-> 0, offset |-> 0]}
SearchInputs ==
    {Merge(Merge(Merge(NoCriteria, e), r), pg) :
        e \in EqualityInputs, r \in RangeInputs, pg \in PageInputs}

\* BulkSessionOperation(user_id=user_id, keep_active=keep_active)
BulkSessionOperation(user_id, keep_active) == user_id > 0

\* delete_criteria of delete_user_sessions
delete_criteria_user_only(user_id, keep_active) == [user_id |-> user_id]
delete_criteria(user_id, keep_active) ==
    IF keep_active THEN [user_id |-> user_id, is_active |-> FALSE]
    ELSE [user_id |-> user_id]

\* SessionManager.delete_user_sessions: the outcome and the table it leaves
delete_user_sessions(st, user_id, keep_active, delete_raises) ==
    LET arg == [user_id |-> user_id, keep_active |-> keep_active]
        deleted == db_delete(st, delete_criteria(user_id, keep_active))
    IN IF ~BulkSessionOperation(user_id, keep_active)
       THEN [outcome |-> QueryOutcome("delete_user_sessions", arg, "SessionValidationError",
                                      Null, Null, 0),
             store |-> st]
       ELSE IF delete_raises
       THEN [outcome |-> QueryOutcome("delete_user_sessions", arg, "SessionDeleteError",
                                      Null, <<"SQLAlchemyDeleteError">>, 1),
             store |-> st]
       ELSE [outcome |-> QueryOutcome("delete_user_sessions", arg, "ok",
                                      deleted.count, Null, 1),
             store |-> deleted.store]

\* SessionManager.count_active_sessions
count_active_sessions(st, read_raises) ==
    IF read_raises
    THEN QueryOutcome("count_active_sessions", Null, "SessionNotFoundError", Null,
                      <<"SQLAlchemyReadError">>, 1)
    ELSE QueryOutcome("count_active_sessions", Null, "ok",
                      Cardinality(db_read(st, [is_active |-> TRUE])), Null, 1)

\* the outcome of the one call made on the table is kept in result
Respond(outcome) ==
    /\ result' = outcome
    /\ UNCHANGED <<now, next_id, calls, pc, local, logged_out, issued, db, groups>>

call_get_session_by_id ==
    /\ result = NoResult
    /\ \E session_id \in 0..3 : \E read_raises \in BOOLEAN :
            Respond(get_session_by_id(store, session_id, read_raises))
    /\ UNCHANGED store

call_get_session_by_session_id ==
    /\ result = NoResult
    /\ \E session_id \in QuerySessionIds \cup {EmptySessionId} : \E read_raises \in BOOLEAN :
            Respond(get_session_by_session_id_outcome(store, session_id, read_raises))
    /\ UNCHANGED store

call_get_sessions_by_user ==
    /\ result = NoResult
    /\ \E user_id \in {0} \cup QueryUserIds : \E limit \in LimitInputs : \E read_raises \in BOOLEAN :
            \E outcome \in get_sessions_by_user(store, user_id, limit, read_raises) : Respond(outcome)
    /\ UNCHANGED store

call_get_active_sessions_by_user ==
    /\ result = NoResult
    /\ \E user_id \in {0} \cup QueryUserIds : \E read_raises \in BOOLEAN :
            \E outcome \in get_active_sessions_by_user(store, user_id, read_raises) : Respond(outcome)
    /\ UNCHANGED store

call_get_sessions_by_ip ==
    /\ result = NoResult
    /\ \E ip_address \in IpInputs : \E limit \in LimitInputs : \E read_raises \in BOOLEAN :
            \E outcome \in get_sessions_by_ip(store, ip_address, limit, read_raises) : Respond(outcome)
    /\ UNCHANGED store

call_search_sessions ==
    /\ result = NoResult
    /\ \E search_criteria \in SearchInputs : \E read_raises \in BOOLEAN :
            \E outcome \in search_sessions(store, search_criteria, read_raises) : Respond(outcome)
    /\ UNCHANGED store

call_delete_user_sessions ==
    /\ result = NoResult
    /\ \E user_id \in {0} \cup QueryUserIds : \E keep_active \in BOOLEAN : \E delete_raises \in BOOLEAN :
            LET done == delete_user_sessions(store, user_id, keep_active, delete_raises)
            IN /\ Respond(done.outcome)
               /\ store' = done.store

call_count_active_sessions ==
    /\ result = NoResult
    /\ \E read_raises \in BOOLEAN : Respond(count_active_sessions(store, read_raises))
    /\ UNCHANGED store

InitQuery ==
    /\ store \in QueryStores
    /\ now = MaxTime + 1
    /\ next_id = 4
    /\ calls = 0
    /\ pc = [p \in Procs |-> "idle"]
    /\ local = [p \in Procs |-> NoCall]
    /\ result = NoResult
    /\ logged_out = {}
    /\ issued = {}
    /\ db = PostgresDB_class
    /\ groups = NoGroups

NextQuery ==
    \/ call_get_session_by_id
    \/ call_get_session_by_session_id
    \/ call_get_sessions_by_user
    \/ call_get_active_sessions_by_user
    \/ call_get_sessions_by_ip
    \/ call_search_sessions
    \/ call_delete_user_sessions
    \/ call_count_active_sessions

SpecQuery == InitQuery /\ [][NextQuery]_vars

\* ---- the sweep of cleanup_expired_sessions, entered with a list of ids ----
SweepStores ==
    {{CreatedRow("s1", 1, 0), CreatedRow("s2", 1, 0)},
     {CreatedRow("s1", 1, 0), LoggedOutRow("s2", 1, 0)}}
ExpiredInputs == {{1}, {1, 2}, {2, 3}}   \* ids of rows of the table, and an id without a row

InitSweep ==
    /\ store \in SweepStores
    /\ now = MaxTime + 1
    /\ next_id = 3
    /\ calls = 0
    /\ pc = [p \in Procs |-> "idle"]
    /\ local = [p \in Procs |-> NoCall]
    /\ result = NoResult
    /\ logged_out = {}
    /\ issued = {}
    /\ db = PostgresDB_class
    /\ groups = NoGroups

\* self._deactivate_expired_sessions(db, expired_sessions): logout_time is read, the loop starts
call_deactivate_expired_sessions(p, expired_sessions) ==
    /\ CanCall(p)
    /\ Continue(p, "sweep",
                SweepLocals("_deactivate_expired_sessions", expired_sessions, expired_sessions, now))
    /\ UNCHANGED <<store, now, next_id, logged_out>>
    /\ UNCHANGED other_vars

NextSweep ==
    \E p \in Procs :
        \/ \E expired_sessions \in ExpiredInputs : call_deactivate_expired_sessions(p, expired_sessions)
        \/ \E h \in HoursInputs : cleanup_expired_sessions(p, h)

SpecSweep == InitSweep /\ [][NextSweep]_vars

\* ---- PostgresDB: the singleton, its engine, close() ----
Threads == {"t1", "t2", "t3"}

InitDB ==
    /\ store = {}
    /\ now = 0
    /\ next_id = 1
    /\ calls = 0
    /\ pc = [t \in Threads |-> "idle"]
    /\ local = [t \in Threads |-> NoCall]
    /\ result = NoResult
    /\ logged_out = {}
    /\ issued = {}
    /\ db = PostgresDB_class
    /\ groups = NoGroups

\* a step of thread t inside a call: position, locals, class state
Step(t, next, locals, class) ==
    /\ pc' = [pc EXCEPT ![t] = next]
    /\ local' = [local EXCEPT ![t] = locals]
    /\ db' = class
    /\ result' = NoResult
    /\ UNCHANGED <<store, now, next_id, calls, logged_out, issued, groups>>

\* the call of thread t returns or raises
Ends(t, kind, value, class) ==
    /\ pc' = [pc EXCEPT ![t] = "idle"]
    /\ local' = [local EXCEPT ![t] = NoCall]
    /\ db' = class
    /\ result' = Outcome(local[t].op, t, kind, value)
    /\ UNCHANGED <<store, now, next_id, calls, logged_out, issued, groups>>

\* `with cls._lock:` entered by t, left by its holder
Acquire(class, t) == [class EXCEPT !._lock = <<t>>]
Release(class) == [class EXCEPT !._lock = Null]

\* PostgresDB(): __new__, `if cls._instance is None` read without the lock
PostgresDB_new(t) ==
    /\ pc[t] = "idle"
    /\ calls < MaxCalls
    /\ calls' = calls + 1
    /\ pc' = [pc EXCEPT ![t] = IF db._instance = Null THEN "new_lock" ELSE "new_return"]
    /\ local' = [local EXCEPT ![t] = [op |-> "PostgresDB"]]
    /\ result' = NoResult
    /\ UNCHANGED <<store, now, next_id, logged_out, issued, db, groups>>

\* __new__: `with cls._lock:`, the second check, super().__new__(cls)
PostgresDB_new_locked_unchecked(t) ==
    /\ pc[t] = "new_lock"
    /\ db._lock = Null
    /\ Step(t, "new_return", local[t],
            [db EXCEPT !._instance = <<db.instances + 1>>, !.instances = @ + 1])
PostgresDB_new_locked(t) ==
    /\ pc[t] = "new_lock"
    /\ db._lock = Null
    /\ Step(t, "new_return", local[t],
            IF db._instance = Null
            THEN [db EXCEPT !._instance = <<db.instances + 1>>, !.instances = @ + 1]
            ELSE db)

\* __new__: `return cls._instance`; __init__: `if not self._connection_initialized`
\* read without the lock
PostgresDB_init(t) ==
    /\ pc[t] = "new_return"
    /\ IF db._connection_initialized
       THEN Ends(t, "ok", db._instance, [db EXCEPT !.returned = TRUE])
       ELSE Step(t, "init_lock", [op |-> "PostgresDB", self |-> db._instance], db)

\* __init__: `with self._lock:`, the second check
PostgresDB_init_locked(t) ==
    /\ pc[t] = "init_lock"
    /\ db._lock = Null
    /\ IF db._connection_initialized
       THEN Ends(t, "ok", local[t].self, [db EXCEPT !.returned = TRUE])
       ELSE Step(t, "create_engine", Merge(local[t], [locked |-> TRUE]),
                 [Acquire(db, t) EXCEPT !.initializing = @ \cup {t}])

\* _initialize_connection: self._engine = create_engine(...)
create_engine(t) ==
    /\ pc[t] = "create_engine"
    /\ Step(t, "test_connection", local[t],
            [db EXCEPT !._engine = <<db.created + 1>>, !.created = @ + 1])

\* _initialize_connection: `SELECT 1` on the new engine succeeds or raises; then
\* what the caller does: __init__ sets the flag and leaves the lock, the engine
\* property returns self._engine
test_connection(t) ==
    /\ pc[t] = "test_connection"
    /\ \E connects \in BOOLEAN :
        LET left == [db EXCEPT !.initializing = @ \ {t}]
        IN IF local[t].locked
           THEN IF connects
                THEN Ends(t, "ok", local[t].self,
                          Release([left EXCEPT !._connection_initialized = TRUE,
                                               !.returned = TRUE]))
                ELSE Ends(t, "SQLAlchemyConnectionError", Null, Release(left))
           ELSE IF connects
                THEN Step(t, "engine_return", local[t], left)
                ELSE Ends(t, "SQLAlchemyConnectionError", Null, left)

NextDB ==
    \E t \in Threads :
        \/ PostgresDB_new(t)
        \/ PostgresDB_new_locked(t)
        \/ PostgresDB_init(t)
        \/ PostgresDB_init_locked(t)
        \/ create_engine(t)
        \/ test_connection(t)

SpecDB == InitDB /\ [][NextDB]_vars

\* ---- PostgresDB: the engine property and close(), on the shared instance ----
\* a call of thread t on the instance it holds begins
Begins(t, op, next, class) ==
    /\ pc[t] = "idle"
    /\ db.returned
    /\ calls < MaxCalls
    /\ calls' = calls + 1
    /\ pc' = [pc EXCEPT ![t] = next]
    /\ local' = [local EXCEPT ![t] = [op |-> op, self |-> db._instance, locked |-> FALSE]]
    /\ db' = class
    /\ result' = NoResult
    /\ UNCHANGED <<store, now, next_id, logged_out, issued, groups>>

\* the engine property: `if self._engine is None: self._initialize_connection()`,
\* no lock taken
engine(t) ==
    IF db._engine = Null
    THEN Begins(t, "engine", "create_engine", [db EXCEPT !.initializing = @ \cup {t}])
    ELSE Begins(t, "engine", "engine_return", db)

\* the engine property: `return self._engine`
engine_return(t) ==
    /\ pc[t] = "engine_return"
    /\ Ends(t, "ok", db._engine, db)

\* close(): `if self._engine:`
close(t) ==
    /\ pc[t] = "idle"
    /\ Begins(t, "close", IF db._engine = Null THEN "close_return" ELSE "dispose", db)

\* close(): self._engine.dispose(), on what self._engine is now
dispose(t) ==
    /\ pc[t] = "dispose"
    /\ IF db._engine = Null
       THEN Ends(t, "AttributeError", Null, db)
       ELSE Step(t, "clear", local[t], [db EXCEPT !.disposed = @ \cup {db._engine[1]}])

\* close(): self._engine = None; self._metadata = None
clear(t) ==
    /\ pc[t] = "clear"
    /\ Step(t, "close_lock", local[t], [db EXCEPT !._engine = Null])

\* close(): `with self._lock: self._connection_initialized = False`
close_locked(t) ==
    /\ pc[t] = "close_lock"
    /\ db._lock = Null
    /\ Ends(t, "ok", Null, [db EXCEPT !._connection_initialized = FALSE])

\* close(): nothing to close
close_return(t) ==
    /\ pc[t] = "close_return"
    /\ Ends(t, "ok", Null, db)

\* the class after a first PostgresDB() call has returned
PostgresDB_connected ==
    [PostgresDB_class EXCEPT !._instance = <<1>>, !.instances = 1, !._engine = <<1>>,
                             !.created = 1, !._connection_initialized = TRUE,
                             !.returned = TRUE]

InitPool ==
    /\ store = {}
    /\ now = 0
    /\ next_id = 1
    /\ calls = 0
    /\ pc = [t \in Threads |-> "idle"]
    /\ local = [t \in Threads |-> NoCall]
    /\ result = NoResult
    /\ logged_out = {}
    /\ issued = {}
    /\ db \in {PostgresDB_class, PostgresDB_connected}
    /\ groups = NoGroups

NextPool ==
    \E t \in Threads :
        \/ PostgresDB_new(t)
        \/ PostgresDB_new_locked(t)
        \/ PostgresDB_init(t)
        \/ PostgresDB_init_locked(t)
        \/ create_engine(t)
        \/ test_connection(t)
        \/ engine(t)
        \/ engine_return(t)
        \/ close(t)
        \/ dispose(t)
        \/ clear(t)
        \/ close_locked(t)
        \/ close_return(t)

SpecPool == InitPool /\ [][NextPool]_vars

\* ---- user_group_management: delete_user_group_with_mappings ----
\* groups 1 and 2 can have a row; 0 is invalid, 3 has no row
GroupIdInputs == 0..3

GroupRow(group_id) == [id |-> group_id, group_name |-> group_id]
\* the two mappings a group can have: ids 1, 2 for group 1 and 3, 4 for group 2
MappingRows(group_id) ==
    {[id |-> 2 * (group_id - 1) + k, group_id |-> group_id, user_id |-> k, is_active |-> a] :
        k \in {1, 2}, a \in BOOLEAN}

\* the tables: each group absent or present, with none, one or both of its mappings
GroupTables(group_id) ==
    {NoGroups}
    \cup {[user_groups |-> {GroupRow(group_id)}, user_group_mapping |-> ms] :
             ms \in {ms \in SUBSET MappingRows(group_id) :
                        \A m1 \in ms : \A m2 \in ms : m1.id = m2.id => m1 = m2}}
AllGroupTables ==
    {[user_groups |-> a.user_groups \cup b.user_groups,
      user_group_mapping |-> a.user_group_mapping \cup b.user_group_mapping] :
        a \in GroupTables(1), b \in GroupTables(2)}

InitGroup ==
    /\ store = {}
    /\ now = 0
    /\ next_id = 1
    /\ calls = 0
    /\ pc = [p \in Procs |-> "idle"]
    /\ local = [p \in Procs |-> NoCall]
    /\ result = NoResult
    /\ logged_out = {}
    /\ issued = {}
    /\ db = PostgresDB_connected
    /\ groups \in AllGroupTables

\* an outcome inside user_group_management: what was raised or returned, the
\* tables and the PostgresDB class state it leaves
GroupOutcome(kind, value, tables, class) ==
    [kind |-> kind, value |-> value, tables |-> tables, class |-> class]

\* get_session(): PostgresDB(), which connects when the flag is unset
Connect(class) ==
    IF class._connection_initialized THEN class
    ELSE [class EXCEPT !._engine = <<class.created + 1>>, !.created = @ + 1,
                       !._connection_initialized = TRUE]

\* PostgresDB.close(), run by one caller alone
Close(class) ==
    IF class._engine = Null THEN class
    ELSE [class EXCEPT !.disposed = @ \cup {class._engine[1]}, !._engine = Null,
                       !._connection_initialized = FALSE]

\* PostgresDB has no commit and no rollback method: the call raises AttributeError
session_commit == "AttributeError"
session_rollback == "AttributeError"

\* get_db_connection(), around a body that ended in `body`: commit after a body
\* that returned, rollback and re-raise after one that raised (a raise inside
\* the handler replaces the exception), close in every case
get_db_connection(body) ==
    LET after_commit == IF body.kind = "ok" THEN session_commit ELSE body.kind
        raised == IF after_commit = "ok" THEN "ok" ELSE
                  IF session_rollback = "ok" THEN after_commit ELSE session_rollback
    IN GroupOutcome(raised, IF raised = "ok" THEN body.value ELSE Null,
                    body.tables, Close(body.class))

\* get_group_with_mappings: validate_group_id, check_group_exists, get_group_mappings
get_group_with_mappings(tables, class, group_id) ==
    LET connected == Connect(class)
        found == {g \in tables.user_groups : g.id = group_id}
    IN get_db_connection(
        IF group_id <= 0
        THEN GroupOutcome("UserGroupValidationError", Null, tables, connected)
        ELSE IF found = {}
        THEN GroupOutcome("UserGroupNotFoundError", Null, tables, connected)
        ELSE GroupOutcome("ok",
                          [group_record |-> CHOOSE g \in found : TRUE,
                           mappings |-> {m \in tables.user_group_mapping : m.group_id = group_id}],
                          tables, connected))

\* delete_user_group_with_mappings, step 4: db.delete returns a rowcount, which
\* has no extend() target and no [0]: the first delete is made, then TypeError
delete_group_rows(tables, class, group_id, mappings) ==
    get_db_connection(
        IF mappings /= {}
        THEN LET mapping == CHOOSE m \in mappings : \A m2 \in mappings : m.id <= m2.id
             IN GroupOutcome("TypeError", Null,
                             [tables EXCEPT !.user_group_mapping = @ \ {mapping}],
                             Connect(class))
        ELSE GroupOutcome("TypeError", Null,
                          [tables EXCEPT !.user_groups = {g \in @ : g.id /= group_id}],
                          Connect(class)))

\* delete_user_group_with_mappings(group_id, force_delete)
delete_user_group_with_mappings_outcome(tables, class, group_id, force_delete) ==
    LET got == get_group_with_mappings(tables, class, group_id)
        \* the exceptions re-raised as they are; any other becomes UserGroupDeleteError
        KnownGroupErrors ==
            {"UserGroupValidationError", "UserGroupNotFoundError", "UserGroupDeleteError",
             "UserGroupMapperError"}
        Reraise(o) == IF o.kind \in KnownGroupErrors THEN o
                      ELSE [o EXCEPT !.kind = "UserGroupDeleteError"]
    IN IF got.kind /= "ok" THEN Reraise(got)
       ELSE LET active_mappings == {m \in got.value.mappings : m.is_active}
            IN IF active_mappings /= {} /\ ~force_delete
               THEN GroupOutcome("UserGroupDeleteError", Null, got.tables, got.class)
               ELSE Reraise(delete_group_rows(got.tables, got.class, group_id,
                                              got.value.mappings))

delete_user_group_with_mappings ==
    /\ result = NoResult
    /\ \E group_id \in GroupIdInputs : \E force_delete \in BOOLEAN :
        LET done == delete_user_group_with_mappings_outcome(groups, db, group_id, force_delete)
        IN /\ result' = Outcome("delete_user_group_with_mappings",
                                [group_id |-> group_id, force_delete |-> force_delete],
                                done.kind, done.value)
           /\ groups' = done.tables
           /\ db' = done.class
    /\ UNCHANGED <<store, now, next_id, calls, pc, local, logged_out, issued>>

NextGroup == delete_user_group_with_mappings

SpecGroup == InitGroup /\ [][NextGroup]_vars

\* ---- steps, as seen from outside ----
\* a call started and ended within this step; result' is its outcome
OneStepCall(op) == pc' = pc /\ result'.op = op
\* caller p made the last round trip of its call in this step
LastRoundTrip(p, at) == pc[p] = at /\ pc'[p] = "idle"
\* a step of a cleanup_expired_sessions call
CleanupStarts == OneStepCall("cleanup_expired_sessions")
                    \/ \E p \in Procs : pc[p] = "idle" /\ pc'[p] = "sweep"
CleanupSweeps(p) == pc[p] = "sweep" /\ (pc'[p] = "idle" \/ local'[p] /= local[p])
CleanupEnds == OneStepCall("cleanup_expired_sessions")
                    \/ \E p \in Procs : LastRoundTrip(p, "sweep")

\* ---- C1 ----
\* C1: whenever create_session succeeds, a get by the same session_id right
\* afterwards returns a row with is_active = true and logout_datetime = null.
C1_CreateThenGetActive ==
    [][\A p \in Procs :
        (LastRoundTrip(p, "create_insert") /\ result'.kind = "ok") =>
            LET got == get_session_by_session_id(store', result'.arg)
            IN got /= Null /\ got[1].is_active /\ got[1].logout_datetime = Null]_vars

\* ---- C2 ----
\* C2: a row whose is_active is false never has is_active = true again.
C2_NeverReactivated ==
    [][\A r \in store : ~r.is_active =>
            \A r2 \in store' : r2.id = r.id => ~r2.is_active]_vars

\* ---- C3 ----
\* C3: every row is either (active, logout_datetime null) or
\* (inactive, logout_datetime set).
C3_ActiveXorLoggedOut ==
    \A r \in store :
        \/ r.is_active /\ r.logout_datetime = Null
        \/ ~r.is_active /\ r.logout_datetime /= Null

\* ---- C4 ----
\* C4: once logout_session has succeeded for a row, a later logout_session on
\* that row's session_id fails with SessionNotFoundError and changes no row.
C4_SecondLogoutNotFound ==
    [][\A p \in Procs : \A s \in SessionIds :
        ( /\ pc[p] = "idle"
          /\ \E r \in store : r.session_id = s /\ r.id \in logged_out
          /\ \/ pc'[p] = "logout_write" /\ local'[p].arg = s
             \/ OneStepCall("logout_session") /\ result'.arg = s )
        => ( /\ OneStepCall("logout_session")
             /\ result'.kind = "SessionNotFoundError"
             /\ store' = store )]_vars

\* ---- C5 ----
\* C5: create_session with a session_id present in the store fails with
\* SessionAlreadyExistsError and inserts nothing; its insert, made while the
\* session_id is still absent, adds exactly one row, with that session_id.
C5_DuplicateCreateRejected ==
    [][\A p \in Procs :
        /\ \A s \in SessionIds :
            ( /\ pc[p] = "idle"
              /\ \E r \in store : r.session_id = s
              /\ \/ pc'[p] = "create_insert" /\ local'[p].arg = s
                 \/ OneStepCall("create_session") /\ result'.arg = s )
            => ( /\ OneStepCall("create_session")
                 /\ result'.kind = "SessionAlreadyExistsError"
                 /\ store' = store )
        /\ ( /\ LastRoundTrip(p, "create_insert")
             /\ ~\E r \in store : r.session_id = local[p].arg )
            => ( /\ result'.kind = "ok"
                 /\ store \subseteq store'
                 /\ Cardinality(store' \ store) = 1
                 /\ \A r \in store' \ store : r.session_id = local[p].arg )]_vars

\* a duplicate create has been refused after an earlier create succeeded
C5_Witness ==
    /\ result.op = "create_session"
    /\ result.kind = "SessionAlreadyExistsError"
    /\ \E r \in store : r.session_id = result.arg

\* ---- C6 ----
\* C6: no two rows share a session_id, whatever the interleaving of creates and
\* whatever update_session writes.
C6_SessionIdUnique ==
    \A r1 \in store : \A r2 \in store : r1 /= r2 => r1.session_id /= r2.session_id

\* two creates of one session_id both passed the existence read; the second insert was refused
C6_Witness ==
    /\ result.op = "create_session"
    /\ result.kind = "SessionCreateError"
    /\ \E r \in store : r.session_id = result.arg

\* ---- C7 ----
\* C7: cleanup_expired_sessions(h) with a valid h returns a count, and leaves no
\* row active whose last_activity is older than now - h hours.
C7_CleanupReturnsCount ==
    [][(CleanupEnds /\ ValidHours(result'.arg)) =>
        ( /\ result'.kind = "ok"
          /\ result'.value /= Null
          /\ \A r \in store' : r.is_active =>
                r.last_activity >= now - result'.arg * TicksPerHour )]_vars

C10_DurationWholeSecondsNonNegative ==
    [][\A p \in Procs :
        (LastRoundTrip(p, "logout_write") /\ result'.kind = "ok") =>
            \A r \in store' \ store : r.session_id = result'.arg =>
                /\ r.session_duration /= Null
                /\ r.logout_datetime /= Null
                /\ LET ticks == r.logout_datetime[1] - r.login_datetime
                       secs == r.session_duration[1]
                   IN /\ ticks >= 0 => (secs * TicksPerSecond <= ticks
                                            /\ ticks < (secs + 1) * TicksPerSecond)
                      /\ ticks < 0 => ((secs - 1) * TicksPerSecond < ticks
                                            /\ ticks <= secs * TicksPerSecond)
                      /\ secs >= 0]_vars

\* ---- C11 ----
\* C11: no step stores in a row a last_activity smaller than the one the row
\* had before the step.
C11_LastActivityMonotone ==
    [][\A r \in store : \A r2 \in store' :
            r2.id = r.id => r2.last_activity >= r.last_activity]_vars

\* ---- C12 ----
\* C12: every row has last_activity >= login_datetime.
C12_ActivityNotBeforeLogin ==
    \A r \in store : r.last_activity >= r.login_datetime

\* ---- C13 ----
\* C13: the token check yields session_id x exactly for a token that was issued
\* for x with the server's key, is unmodified, and whose age is at most
\* session_timeout; for every other presented token it yields no session_id.
C13_VerifyAcceptsExactlyIssued ==
    \A token \in PresentedTokens : \A x \in SessionIds :
        LET decoded == verify_token(token, now)
        IN (decoded.ok /\ decoded.value = x)
            <=> ( /\ token \in issued
                  /\ token.payload = x
                  /\ TokenTime(now) - token.timestamp <= session_timeout )

\* get_user_session has returned the session of an issued token whose age is exactly session_timeout
C13_Witness ==
    /\ result.op = "get_user_session"
    /\ result.value /= Null
    /\ result.arg \in issued
    /\ TokenTime(now) - result.arg.timestamp = session_timeout

\* ---- C14 ----
\* C14: a get_user_session request that starts while the session of its validly
\* signed, unexpired token is inactive, or after logout_session has succeeded
\* for that session, returns no session (get_current_user: no user).
C14_NoUserAfterLogout ==
    [][\A p \in Procs : \A token \in PresentedTokens :
        LET decoded == verify_token(token, now)
        IN ( /\ pc[p] = "idle"
             /\ decoded.ok
             /\ \E r \in store : r.session_id = decoded.value
                                    /\ (~r.is_active \/ r.id \in logged_out)
             /\ \/ pc'[p] = "web_touch" /\ local'[p].arg = token
                \/ OneStepCall("get_user_session") /\ result'.arg = token )
           => ( /\ OneStepCall("get_user_session")
                /\ get_current_user(result'.value) = Null )]_vars

\* a getter returned or raised after a store read that did not fail
GetterAnswered(op) ==
    /\ result.op = op
    /\ result.kind /= "SessionValidationError"
    /\ result.cause = Null

\* C15 as stated: get_session_by_id and get_session_by_session_id both raise
\* SessionNotFoundError when no row has the key, and return the row otherwise.
C15_BothRaiseNotFound ==
    /\ GetterAnswered("get_session_by_id") =>
            IF \E r \in store : r.id = result.arg
            THEN result.kind = "ok" /\ result.value /= Null
                 /\ result.value[1] \in store /\ result.value[1].id = result.arg
            ELSE result.kind = "SessionNotFoundError"
    /\ GetterAnswered("get_session_by_session_id") =>
            IF \E r \in store : r.session_id = result.arg
            THEN result.kind = "ok" /\ result.value /= Null
                 /\ result.value[1] \in store /\ result.value[1].session_id = result.arg
            ELSE result.kind = "SessionNotFoundError"

\* C15: get_session_by_id raises SessionNotFoundError when no row has the id;
\* get_session_by_session_id returns None when no row has the session_id; each
\* returns the row with the key when there is one.
C15_NotFoundById_NoneBySessionId ==
    /\ GetterAnswered("get_session_by_id") =>
            IF \E r \in store : r.id = result.arg
            THEN result.kind = "ok" /\ result.value /= Null
                 /\ result.value[1] \in store /\ result.value[1].id = result.arg
            ELSE result.kind = "SessionNotFoundError"
    /\ GetterAnswered("get_session_by_session_id") =>
            IF \E r \in store : r.session_id = result.arg
            THEN result.kind = "ok" /\ result.value /= Null
                 /\ result.value[1] \in store /\ result.value[1].session_id = result.arg
            ELSE result.kind = "ok" /\ result.value = Null

\* the session_id getter answered None on a table that has other rows
C15_Witness ==
    /\ GetterAnswered("get_session_by_session_id")
    /\ result.kind = "ok" /\ result.value = Null
    /\ store /= {}

\* C16: a call whose store read raised does not end in SessionNotFoundError or
\* SessionAlreadyExistsError, and get_session_by_id ends in SessionNotFoundError
\* only when no row has the id.
C16_StoreFailureDistinguished ==
    result /= NoResult =>
        /\ result.cause /= Null =>
                result.kind \notin {"SessionNotFoundError", "SessionAlreadyExistsError"}
        /\ (result.op = "get_session_by_id" /\ result.kind = "SessionNotFoundError") =>
                ~\E r \in store : r.id = result.arg

\* the input of the call in result fails validation
InvalidQueryInput ==
    \/ result.op = "get_session_by_id" /\ ~ValidIdInt(result.arg)
    \/ result.op = "get_session_by_session_id" /\ ~ValidSessionIdStr(result.arg)
    \/ result.op = "get_sessions_by_user" /\ ~ValidUserId(result.arg.user_id)
    \/ result.op = "get_active_sessions_by_user" /\ ~ValidUserId(result.arg)
    \/ result.op = "get_sessions_by_ip" /\ ~ValidIpAddress(result.arg.ip_address)

\* C17: a call whose input fails validation (malformed IP address, empty
\* session_id, non-positive user_id or id) ends in SessionValidationError and
\* has made no store call.
C17_ValidationPrecedesStore ==
    (result /= NoResult /\ InvalidQueryInput) =>
        result.kind = "SessionValidationError" /\ result.store_calls = 0

\* a list is in descending order of login_datetime
LoginDescending(sessions_list) ==
    \A i \in 1..Len(sessions_list) : \A k \in 1..Len(sessions_list) :
        i < k => sessions_list[i].login_datetime >= sessions_list[k].login_datetime

\* a list holds exactly the rows of a set, each once
ListsExactly(sessions_list, rows) ==
    /\ {sessions_list[i] : i \in 1..Len(sessions_list)} = rows
    /\ Len(sessions_list) = Cardinality(rows)

\* C18: get_active_sessions_by_user(user_id) returns exactly the rows of the
\* user that are active, each once, in descending order of login_datetime (of
\* two sessions created at different times the later one comes first).
C18_ActiveSessionsNewestFirst ==
    (result.op = "get_active_sessions_by_user" /\ result.kind = "ok") =>
        /\ ListsExactly(result.value, {r \in store : r.user_id = result.arg /\ r.is_active})
        /\ LoginDescending(result.value)

\* two active sessions of the user created at different times were returned,
\* later one first, and a logged-out session of the same user was left out
C18_Witness ==
    /\ result.op = "get_active_sessions_by_user" /\ result.kind = "ok"
    /\ Len(result.value) = 2
    /\ result.value[1].login_datetime > result.value[2].login_datetime
    /\ \E r \in store : r.user_id = result.arg /\ ~r.is_active

\* the rows that the criteria of a search select: equal in every equality
\* criterion given, and inside every range given (both ends included)
SearchMatches(r, c) ==
    /\ (c.user_id /= Null => r.user_id = c.user_id[1])
    /\ (c.is_active /= Null => r.is_active = c.is_active[1])
    /\ (c.login_datetime_from /= Null => r.login_datetime >= c.login_datetime_from[1])
    /\ (c.login_datetime_to /= Null => r.login_datetime <= c.login_datetime_to[1])
    /\ (c.last_activity_from /= Null => r.last_activity >= c.last_activity_from[1])
    /\ (c.last_activity_to /= Null => r.last_activity <= c.last_activity_to[1])

\* C19: search_sessions returns the slice [offset, offset + limit) of a list
\* that holds exactly the rows matching the equality and range criteria, in
\* descending order of login_datetime; with limit 1 and offset 0 that is the
\* most recent matching row alone.
C19_SearchIsSliceOfSortedMatches ==
    (result.op = "search_sessions" /\ result.kind = "ok") =>
        LET c == result.arg
            matching == {r \in store : SearchMatches(r, c)}
        IN /\ \E sorted \in Permutations_(matching) :
                  /\ LoginDescending(sorted)
                  /\ result.value = SubSeq(sorted, c.offset + 1,
                                           IF c.offset + c.limit < Len(sorted)
                                           THEN c.offset + c.limit ELSE Len(sorted))
           /\ (c.limit = 1 /\ c.offset = 0 /\ matching /= {}) =>
                  /\ Len(result.value) = 1
                  /\ \A r \in matching : result.value[1].login_datetime >= r.login_datetime

\* a search with limit 1 and offset 0 returned the most recent of two matching
\* rows of different login_datetime, on a table with a row that does not match
C19_Witness ==
    /\ result.op = "search_sessions" /\ result.kind = "ok"
    /\ result.arg.limit = 1 /\ result.arg.offset = 0
    /\ Len(result.value) = 1
    /\ \E r \in store : SearchMatches(r, result.arg)
                          /\ r.login_datetime < result.value[1].login_datetime
    /\ \E r \in store : ~SearchMatches(r, result.arg)

\* C20: a successful delete_user_sessions(u, keep_active) removes exactly the
\* rows with user_id = u that are inactive (keep_active) or exactly the rows
\* with user_id = u (not keep_active), leaves every other row as it was, and
\* returns the number of rows removed.
C20_DeleteUserSessionsExact ==
    [][(result = NoResult /\ result'.op = "delete_user_sessions" /\ result'.kind = "ok") =>
          LET u == result'.arg.user_id
              gone == {r \in store : r.user_id = u /\ (result'.arg.keep_active => ~r.is_active)}
          IN /\ store' = store \ gone
             /\ result'.value = Cardinality(gone)]_vars

\* delete_user_sessions(u, keep_active = true) removed one row and left an
\* active row of u and a row of another user in the table
C20_Witness ==
    /\ result.op = "delete_user_sessions" /\ result.kind = "ok"
    /\ result.arg.keep_active
    /\ result.value = 1
    /\ \E r \in store : r.user_id = result.arg.user_id /\ r.is_active
    /\ \E r \in store : r.user_id /= result.arg.user_id

\* the rows a limited list query selects from: those of the user, or of the address
LimitedMatching ==
    IF result.op = "get_sessions_by_user"
    THEN {r \in store : r.user_id = result.arg.user_id}
    ELSE {r \in store : r.ip_address = <<result.arg.ip_address>>}

\* C30: get_sessions_by_user(user_id, limit) and get_sessions_by_ip(ip, limit)
\* return min(limit, number of matching rows) matching rows, and no matching
\* row left out has a later login_datetime than a row returned.
C30_LimitKeepsMostRecent ==
    (result.op \in {"get_sessions_by_user", "get_sessions_by_ip"} /\ result.kind = "ok") =>
        LET returned == {result.value[i] : i \in 1..Len(result.value)}
            n == result.arg.limit
        IN /\ returned \subseteq LimitedMatching
           /\ Len(result.value) = IF n < Cardinality(LimitedMatching)
                                   THEN n ELSE Cardinality(LimitedMatching)
           /\ \A r \in returned : \A left_out \in LimitedMatching \ returned :
                  r.login_datetime >= left_out.login_datetime

\* a timestamp inside a range whose lower end is included and whose upper end is not
InHalfOpenRange(t, from_dt, to_dt) ==
    /\ (from_dt /= Null => t >= from_dt[1])
    /\ (to_dt /= Null => t < to_dt[1])

\* C27: a row is returned by search_sessions iff it meets the equality criteria
\* and from <= login_datetime < to and from <= last_activity < to for the
\* ranges given (a page that holds every match returns exactly these rows; no
\* page returns a row whose timestamp equals the upper end).
C27_RangesInclusiveExclusive ==
    (result.op = "search_sessions" /\ result.kind = "ok") =>
        LET c == result.arg
            returned == {result.value[i] : i \in 1..Len(result.value)}
            in_range == {r \in store :
                           /\ (c.user_id /= Null => r.user_id = c.user_id[1])
                           /\ (c.is_active /= Null => r.is_active = c.is_active[1])
                           /\ InHalfOpenRange(r.login_datetime,
                                              c.login_datetime_from, c.login_datetime_to)
                           /\ InHalfOpenRange(r.last_activity,
                                              c.last_activity_from, c.last_activity_to)}
        IN /\ returned \subseteq in_range
           /\ (c.offset = 0 /\ c.limit >= Cardinality(store)) => returned = in_range

\* C23: update_session_activity ends in SessionNotFoundError when no active
\* row has the session_id, and its write never changes the last_activity of a
\* row that is inactive when the write is made.
C23_TouchWritesOnlyActive ==
    [][/\ \A s \in SessionIds :
            (OneStepCall("update_session_activity") /\ result'.arg = s
             /\ ~\E r \in store : r.session_id = s /\ r.is_active)
                => result'.kind = "SessionNotFoundError"
       /\ \A p \in Procs : LastRoundTrip(p, "activity_write") =>
            \A r \in store : \A r2 \in store' :
                (r2.id = r.id /\ ~r.is_active) => r2.last_activity = r.last_activity]_vars

\* C24: no step changes the session_id or the login_datetime of the row with
\* a given id.
C24_IdentityFieldsImmutable ==
    [][\A r \in store : \A r2 \in store' :
          r2.id = r.id => (r2.session_id = r.session_id /\ r2.login_datetime = r.login_datetime)]_vars

\* a pass of the sweep loop of caller p: one db.update was attempted
SweepPass(p) == pc[p] = "sweep" /\ pc'[p] = "sweep" /\ local'[p] /= local[p]

\* C25: every pass of the sweep takes exactly one id off the list, whether its
\* update raised or not; the sweep ends only when the list is empty, without
\* an exception, and returns the number of ids whose update wrote a row.
C25_SweepSwallowsFailures ==
    [][\A p \in Procs :
        /\ SweepPass(p) =>
              /\ \E session_id \in local[p].ids : local'[p].ids = local[p].ids \ {session_id}
              /\ \A session_id \in local'[p].written \ local[p].written :
                    \E r \in store' : r.id = session_id /\ ~r.is_active
                                       /\ r.logout_datetime = <<local[p].logout_time>>
              /\ local'[p].written = local[p].written => store' = store
        /\ LastRoundTrip(p, "sweep") =>
              /\ local[p].ids = {}
              /\ result'.kind = "ok"
              /\ result'.value = <<Cardinality(local[p].written)>>]_vars

\* a sweep over the ids of two rows returned 1: one update raised, its row is
\* still active, the other row was deactivated
C25_Witness ==
    /\ result.op = "_deactivate_expired_sessions" /\ result.kind = "ok"
    /\ result.arg = {1, 2}
    /\ result.value = <<1>>
    /\ \E r \in store : r.id \in result.arg /\ r.is_active
    /\ \E r \in store : r.id \in result.arg /\ ~r.is_active /\ r.logout_datetime = <<now>>

\* C26: no step of cleanup_expired_sessions or of its sweep adds or removes a
\* row, and a row the sweep changes differs from what it was only in
\* is_active (now false) and logout_datetime (the sweep's logout_time);
\* session_duration, last_activity, login_datetime, user_id and session_id
\* are as before.
C26_ExpirySoftFlip ==
    [][(CleanupStarts \/ \E p \in Procs : CleanupSweeps(p)) =>
          /\ {r.id : r \in store'} = {r.id : r \in store}
          /\ \A r \in store : \A r2 \in store' :
                (r2.id = r.id /\ r2 /= r) =>
                    /\ \E p \in Procs :
                          /\ pc[p] = "sweep"
                          /\ r2 = [r EXCEPT !.is_active = FALSE,
                                             !.logout_datetime = <<local[p].logout_time>>]
                    /\ r2.session_duration = r.session_duration
                    /\ r2.last_activity = r.last_activity]_vars

\* a sweep has deactivated a row that was created active and never logged out:
\* it has a logout_datetime and no session_duration
C26_Witness ==
    /\ result.op = "_deactivate_expired_sessions" /\ result.kind = "ok"
    /\ \E r \in store : /\ r.id \in result.arg
                          /\ ~r.is_active
                          /\ r.logout_datetime = <<now>>
                          /\ r.session_duration = Null
                          /\ r.last_activity < now

\* the token fails verification: its signature is not the server's, or it is
\* validly signed and older than session_timeout
TokenTampered(token) == token.signature /= Signature(secret_key, token.payload, token.timestamp)
TokenExpired(token, t) == ~TokenTampered(token) /\ TokenTime(t) - token.timestamp > session_timeout

\* C28: get_user_session with a tampered token and get_user_session with an
\* expired token have the same outcome: the call returns None at once and
\* writes nothing to the store.
C28_TokenFailuresIndistinguishable ==
    [][\A p \in Procs : \A token \in PresentedTokens :
        (TokenTampered(token) \/ TokenExpired(token, now)) =>
            /\ ~(pc[p] = "idle" /\ pc'[p] = "web_touch" /\ local'[p].arg = token)
            /\ (OneStepCall("get_user_session") /\ result'.arg = token) =>
                  /\ result'.kind = "ok"
                  /\ result'.value = Null
                  /\ store' = store]_vars

\* get_user_session has returned None for a token the server issued, unmodified,
\* whose session is still active, because the token is older than session_timeout
C28_Witness ==
    /\ result.op = "get_user_session" /\ result.kind = "ok" /\ result.value = Null
    /\ result.arg \in issued
    /\ TokenExpired(result.arg, now)
    /\ \E r \in store : r.session_id = result.arg.payload /\ r.is_active

\* C21 as stated: with threads calling PostgresDB(), one object is made, every
\* call that returns returns it, and create_engine runs once.
C21_OneInstanceOneEngineCreation ==
    /\ db.instances <= 1
    /\ db.created <= 1
    /\ (result.op = "PostgresDB" /\ result.kind = "ok") =>
            (result.value = <<1>> /\ db.created = 1)

\* C21: with threads calling PostgresDB(), one object is made and every call
\* that returns returns it; _initialize_connection is never run by two threads
\* at once, is not run again once a run has succeeded, and has succeeded when
\* a call returns. A run that fails raises to its caller and the next call
\* runs it again.
C21_OneInstanceOneSuccessfulInit ==
    [][/\ db'.instances <= 1
       /\ Cardinality(db'.initializing) <= 1
       /\ db._connection_initialized =>
              (db'._connection_initialized /\ db'.created = db.created)
       /\ (result'.op = "PostgresDB" /\ result'.kind = "ok") =>
              /\ result'.value = <<1>>
              /\ db'._connection_initialized
              /\ db'._engine = <<db'.created>>
       /\ (result'.op = "PostgresDB" /\ result'.kind /= "ok") =>
              ~db'._connection_initialized]_vars

\* a PostgresDB() call has returned after the connection failed for an earlier
\* call, while another thread that saw the flag unset waits for the lock
C21_Witness ==
    /\ result.op = "PostgresDB" /\ result.kind = "ok"
    /\ db.created = 2
    /\ \E t \in Threads : pc[t] = "init_lock"

\* engines created and not disposed
LiveEngines == (1..db.created) \ db.disposed

\* C29: at most one engine is live, at most one thread is inside
\* _initialize_connection, the engine property never returns None, and
\* close() never finds self._engine gone under it.
C29_EngineNeverTornDownNorTwice ==
    /\ Cardinality(LiveEngines) <= 1
    /\ Cardinality(db.initializing) <= 1
    /\ (result.op = "engine" /\ result.kind = "ok") => result.value /= Null
    /\ result.op = "close" => result.kind = "ok"

\* C22: delete_user_group_with_mappings(g, force_delete) on an existing group g:
\* with an active mapping and no force_delete it raises UserGroupDeleteError
\* and deletes nothing; otherwise it deletes the group row and every mapping of
\* g, and returns the deleted group and the number of mappings g had.
C22_DeleteGroupWithMappings ==
    [][(result = NoResult /\ result'.op = "delete_user_group_with_mappings"
        /\ \E g \in groups.user_groups : g.id = result'.arg.group_id) =>
          LET group_id == result'.arg.group_id
              mappings == {m \in groups.user_group_mapping : m.group_id = group_id}
          IN IF (\E m \in mappings : m.is_active) /\ ~result'.arg.force_delete
             THEN result'.kind = "UserGroupDeleteError" /\ groups' = groups
             ELSE /\ result'.kind = "ok"
                  /\ groups'.user_groups = {g \in groups.user_groups : g.id /= group_id}
                  /\ groups'.user_group_mapping = groups.user_group_mapping \ mappings
                  /\ result'.value.deleted_group.id = group_id
                  /\ result'.value.deleted_mappings_count = Cardinality(mappings)]_vars
====
